---------------------------- MODULE Spec2Model ----------------------------
(***************************************************************************)
(* Confidence ensembles (ConfidenceBagging, ConfidenceBoosting).           *)
(*                                                                         *)
(* Floats are modelled exactly as rationals:                               *)
(*   - ratios (max_features, sampling_ratio, perc_decisors, boost_thr) are *)
(*     integers in units of 1/RatioDen;                                    *)
(*   - confidences are ratios too, and the binary search of               *)
(*     define_conf_thr works in units of 1/Scale, fine enough for every    *)
(*     midpoint it computes to be exact;                                   *)
(*   - sample weights are integer numerators over a common denominator.    *)
(* An optional argument is <<>> (None) or <<v>>.                           *)
(***************************************************************************)
EXTENDS Integers, Sequences, FiniteSets, TLC

VARIABLES
    ctor,          \* which constructor ran: "none", "bagging", "boosting", "raised"
    args,          \* the constructor's arguments
    bag,           \* the ConfidenceBagging object (self)
    bst,           \* the ConfidenceBoosting object (self)
    X,             \* shape of the data set handed to fit / fit_ensemble
    fit,           \* ConfidenceBagging.fit: position and locals of the caller
    task,          \* the worker processes of fit (fit_base), by index
    f_list,        \* Manager().list() of feature subsets
    c_list,        \* Manager().list() of trained learners
    lock,          \* multiprocessing.Lock(): 0 or the index of its holder
    pred,          \* ConfidenceBagging.predict_proba: its last call
    boost          \* ConfidenceBoosting.fit_ensemble: position and locals

vars == <<ctor, args, bag, bst, X, fit, task, f_list, c_list, lock, pred, boost>>

-----------------------------------------------------------------------------
(* Bounds of the model *)

MaxBase == 3         \* largest n_base a fitted ensemble is given
MaxFeatures == 3     \* largest number of columns of X
MaxRows == 2         \* largest number of rows of X
MaxNBaseArg == 4     \* largest n_base argument handed to a constructor
MaxConf == 3         \* number of distinct confidence values of a member
MaxLearningRate == 2 \* largest learning_rate argument
MaxRounds == 2       \* largest n_base of a boosting ensemble that is fitted
MaxSolverRows == 4   \* longest confidence vector handed to define_conf_thr alone

(* Units *)

RatioDen == 10       \* a ratio r stands for r / RatioDen

DefaultNBase == 10
DefaultMaxFeatures == 7
DefaultSamplingRatio == 7
DefaultBoostThr == 8
DefaultLearningRate == 2
DeltaInv == 100      \* delta = 0.01 = 1 / DeltaInv
BracketInv == 1000   \* the bracket stops at 0.001 = 1 / BracketInv

None == <<>>
Some(v) == <<v>>
Opt(S) == {None} \cup {Some(v) : v \in S}

Max(a, b) == IF a >= b THEN a ELSE b
Min(a, b) == IF a <= b THEN a ELSE b
Abs(a) == IF a >= 0 THEN a ELSE -a

\* int(n * r) for a ratio r >= 0
IntTimesRatio(n, r) == (n * r) \div RatioDen

\* 0 < r <= 1
InUnitInterval(r) == 0 < r /\ r <= RatioDen

-----------------------------------------------------------------------------
(* ConfidenceBagging.__init__ *)

InitNBase(n) == IF n > 1 THEN n ELSE DefaultNBase

InitMaxFeatures(mf) ==
    IF mf # None /\ InUnitInterval(mf[1]) THEN mf[1] ELSE DefaultMaxFeatures

InitSamplingRatio(sr) ==
    IF sr # None /\ InUnitInterval(sr[1]) THEN sr[1] ELSE DefaultSamplingRatio

DecisorsFromPerc(nb, p) ==
    IF IntTimesRatio(nb, p) > 0 THEN IntTimesRatio(nb, p) ELSE 1

\* a default that forgets to halve
DefaultDecisorsBug(nb) == 1 + nb
\* 1 + int(self.n_base / 2)
DefaultDecisors(nb) == 1 + (nb \div 2)

InitDecisors(nb, perc, nd) ==
    IF perc # None /\ InUnitInterval(perc[1])
    THEN DecisorsFromPerc(nb, perc[1])
    ELSE IF nd # None /\ 0 < nd[1] /\ nd[1] <= nb
         THEN nd[1]
         ELSE DefaultDecisors(nb)

BaggingInit(a) ==
    LET nb == InitNBase(a.n_base) IN
    [ weighted       |-> a.weighted,
      n_base         |-> nb,
      max_features   |-> InitMaxFeatures(a.max_features),
      sampling_ratio |-> InitSamplingRatio(a.sampling_ratio),
      n_decisors     |-> InitDecisors(nb, a.perc_decisors, a.n_decisors),
      estimators_    |-> << >>,
      feature_sets   |-> << >> ]

-----------------------------------------------------------------------------
(* ConfidenceBoosting.__init__ *)

\* ConfidenceEnsemble.__init__ (the parent class): member count and the
\* empty member list
EnsembleInit(a) ==
    [ n_base      |-> InitNBase(a.n_base),
      estimators_ |-> << >> ]

\* 1 / n_base ** (1 / 2): kept symbolic, the ratio is 1 / sqrt(v).
\* n_base = 0 raises ZeroDivisionError; n_base < 0 gives a complex number.
BoostSamplingRatio(sr, n) ==
    IF sr # None
    THEN [kind |-> "ratio", v |-> sr[1]]
    ELSE IF n > 0 THEN [kind |-> "invsqrt", v |-> n]
         ELSE [kind |-> "complex", v |-> n]

BoostingInitRaises(a) == a.sampling_ratio = None /\ a.n_base = 0

BoostingInit(a) ==
    LET base == EnsembleInit(a) IN
    [ n_base         |-> base.n_base,
      estimators_    |-> base.estimators_,
      boost_thr      |-> IF a.boost_thr # None THEN a.boost_thr[1]
                         ELSE DefaultBoostThr,
      learning_rate  |-> IF a.learning_rate # None THEN a.learning_rate[1]
                         ELSE DefaultLearningRate,
      sampling_ratio |-> BoostSamplingRatio(a.sampling_ratio, a.n_base) ]

-----------------------------------------------------------------------------
(* Sequences *)

Range(s) == {s[i] : i \in 1..Len(s)}

RECURSIVE Insert(_, _)
\* x put before the first element greater than it
Insert(x, s) ==
    IF s = << >> THEN <<x>>
    ELSE IF x <= Head(s) THEN <<x>> \o s
         ELSE <<Head(s)>> \o Insert(x, Tail(s))

RECURSIVE SortAsc(_)
\* list.sort() / numpy.sort
SortAsc(s) == IF s = << >> THEN << >> ELSE Insert(Head(s), SortAsc(Tail(s)))

Reverse(s) == [i \in 1..Len(s) |-> s[Len(s) + 1 - i]]

\* random.sample(range(n), k): the k-arrangements of 0..n-1
Arrangements(n, k) ==
    {s \in [1..k -> 0..(n - 1)] : \A i, j \in 1..k : i # j => s[i] # s[j]}

-----------------------------------------------------------------------------
(* ConfidenceBagging.fit and its workers (fit_base) *)

Tasks == 1..bag.n_base

NoTask == [pc |-> "created", features |-> << >>]

IdleFit == [pc |-> "idle", i |-> 0, bag_features_n |-> 0, samples_n |-> 0]

\* int(X.shape[1] * self.max_features)
BagFeaturesN(n_features, max_features) == IntTimesRatio(n_features, max_features)

\* fit, lines 77-89: the sizes, the shared lists, the lock, the tasks
FitBegin ==
    /\ ctor = "bagging"
    /\ fit.pc = "idle"
    /\ fit' = [pc |-> "start", i |-> 1,
               bag_features_n |-> BagFeaturesN(X.n_features, bag.max_features),
               samples_n |-> IntTimesRatio(X.n_rows, bag.sampling_ratio)]
    /\ f_list' = << >>
    /\ c_list' = << >>
    /\ lock' = 0
    /\ task' = [t \in Tasks |-> NoTask]
    /\ UNCHANGED <<ctor, args, bag, bst, X, pred, boost>>

\* fit, lines 90-91: running_task.start(), in list order
FitStart ==
    /\ fit.pc = "start"
    /\ IF fit.i <= bag.n_base
       THEN /\ task' = [task EXCEPT ![fit.i].pc = "running"]
            /\ fit' = [fit EXCEPT !.i = fit.i + 1]
       ELSE /\ fit' = [fit EXCEPT !.pc = "join", !.i = 1]
            /\ UNCHANGED task
    /\ UNCHANGED <<ctor, args, bag, bst, X, f_list, c_list, lock, pred, boost>>

\* a process has ended, normally or by an uncaught exception
Ended(t) == task[t].pc \in {"exited", "failed"}

\* a join that does not wait
JoinableBug(t) == TRUE
\* running_task.join() returns once the process has ended
Joinable(t) == Ended(t)

\* fit, lines 92-93: running_task.join(), in list order. join() returns
\* normally whatever the exit code of the process
FitJoin ==
    /\ fit.pc = "join"
    /\ IF fit.i <= bag.n_base
       THEN /\ Joinable(fit.i)
            /\ fit' = [fit EXCEPT !.i = fit.i + 1]
       ELSE fit' = [fit EXCEPT !.pc = "read_f"]
    /\ UNCHANGED <<ctor, args, bag, bst, X, task, f_list, c_list, lock, pred, boost>>

\* fit, line 95
FitReadF ==
    /\ fit.pc = "read_f"
    /\ bag' = [bag EXCEPT !.feature_sets = f_list]
    /\ fit' = [fit EXCEPT !.pc = "read_c"]
    /\ UNCHANGED <<ctor, args, bst, X, task, f_list, c_list, lock, pred, boost>>

\* fit, line 96
FitReadC ==
    /\ fit.pc = "read_c"
    /\ bag' = [bag EXCEPT !.estimators_ = c_list]
    /\ fit' = [fit EXCEPT !.pc = "tail"]
    /\ UNCHANGED <<ctor, args, bst, X, task, f_list, c_list, lock, pred, boost>>

\* fit, lines 99-101: X[[0, 1], :] raises IndexError on a one-row X;
\* compute_feature_importances reads the base estimator and returns
FitTail ==
    /\ fit.pc = "tail"
    /\ fit' = [fit EXCEPT !.pc = IF X.n_rows < 2 THEN "IndexError" ELSE "returned"]
    /\ UNCHANGED <<ctor, args, bag, bst, X, task, f_list, c_list, lock, pred, boost>>

\* fit_base, lines 56-61: the feature subset, drawn and sorted; the rows.
\* random.sample raises ValueError when the subset is larger than the range,
\* numpy.random.choice when more rows are asked than there are
SortFeatures(s) == SortAsc(s)

WorkerSample(t) ==
    /\ fit.pc \notin {"idle"}
    /\ task[t].pc = "running"
    /\ IF fit.bag_features_n > X.n_features \/ fit.samples_n > X.n_rows
       THEN task' = [task EXCEPT ![t].pc = "failed"]
       ELSE \E s \in Arrangements(X.n_features, fit.bag_features_n) :
               task' = [task EXCEPT ![t] = [pc |-> "sampled",
                                            features |-> SortFeatures(s)]]
    /\ UNCHANGED <<ctor, args, bag, bst, X, fit, f_list, c_list, lock, pred, boost>>

\* fit_base, lines 64-69: learner.fit returns
WorkerTrain(t) ==
    /\ task[t].pc = "sampled"
    /\ task' = [task EXCEPT ![t].pc = "trained"]
    /\ UNCHANGED <<ctor, args, bag, bst, X, fit, f_list, c_list, lock, pred, boost>>

\* fit_base, line 65: learner.fit raises; the process ends with the
\* exception, nothing is appended
WorkerRaise(t) ==
    /\ task[t].pc = "sampled"
    /\ task' = [task EXCEPT ![t].pc = "failed"]
    /\ UNCHANGED <<ctor, args, bag, bst, X, fit, f_list, c_list, lock, pred, boost>>

\* fit_base, line 72: with lock
WorkerAcquire(t) ==
    /\ task[t].pc = "trained"
    /\ lock = 0
    /\ lock' = t
    /\ task' = [task EXCEPT ![t].pc = "locked"]
    /\ UNCHANGED <<ctor, args, bag, bst, X, fit, f_list, c_list, pred, boost>>

\* fit_base, line 73
WorkerAppendF(t) ==
    /\ task[t].pc = "locked"
    /\ f_list' = Append(f_list, task[t].features)
    /\ task' = [task EXCEPT ![t].pc = "appended_f"]
    /\ UNCHANGED <<ctor, args, bag, bst, X, fit, c_list, lock, pred, boost>>

\* fit_base, line 74: the learner trained by process t is learner t
WorkerAppendC(t) ==
    /\ task[t].pc = "appended_f"
    /\ c_list' = Append(c_list, t)
    /\ task' = [task EXCEPT ![t].pc = "appended_c"]
    /\ UNCHANGED <<ctor, args, bag, bst, X, fit, f_list, lock, pred, boost>>

\* fit_base: the with block is left and the process ends
WorkerExit(t) ==
    /\ task[t].pc = "appended_c"
    /\ lock' = 0
    /\ task' = [task EXCEPT ![t].pc = "exited"]
    /\ UNCHANGED <<ctor, args, bag, bst, X, fit, f_list, c_list, pred, boost>>

-----------------------------------------------------------------------------
(* ConfidenceBagging.predict_proba, on one row of X (rows are handled      *)
(* independently). A member's confidence for the row is one of MaxConf     *)
(* values; only their order matters.                                       *)

NoPred == [status |-> "none", asked |-> 0, conf |-> << >>, decisors |-> {}]

\* -numpy.sort(-conf_array, axis=1)
SortDesc(conf) == Reverse(SortAsc(conf))

\* a cutoff one rank too low
ConfThrBug(conf, k) == SortDesc(conf)[Min(k + 1, Len(conf))]
\* all_conf[:, self.n_decisors - 1]
ConfThr(conf, k) == SortDesc(conf)[k]

\* numpy.where(conf_array[i] >= conf_thrs[i])
TopDecisors(conf, k) == {m \in 1..Len(conf) : conf[m] >= ConfThr(conf, k)}

\* lines 128-131: the first member index the loop cannot read, or 0.
\* self.estimators_[i] is evaluated before self.feature_sets[i]
FirstMissing ==
    IF \E i \in 1..bag.n_base : i > Len(bag.estimators_) \/ i > Len(bag.feature_sets)
    THEN CHOOSE i \in 1..bag.n_base :
            /\ i > Len(bag.estimators_) \/ i > Len(bag.feature_sets)
            /\ \A j \in 1..(i - 1) :
                  j <= Len(bag.estimators_) /\ j <= Len(bag.feature_sets)
    ELSE 0

\* the error predict_proba raises when a member is missing
MissingMemberError == "IndexError"

PredictProba ==
    /\ ctor = "bagging"
    /\ fit.pc \in {"idle", "returned", "IndexError"}
    /\ pred.status = "none"
    /\ IF FirstMissing # 0
       THEN pred' = [status |-> MissingMemberError, asked |-> FirstMissing - 1,
                     conf |-> << >>, decisors |-> {}]
       ELSE \E conf \in [1..bag.n_base -> 1..MaxConf] :
               pred' = [status |-> "returned", asked |-> bag.n_base,
                        conf |-> conf,
                        decisors |-> IF bag.weighted THEN 1..bag.n_base
                                     ELSE TopDecisors(conf, bag.n_decisors)]
    /\ UNCHANGED <<ctor, args, bag, bst, X, fit, task, f_list, c_list, lock, boost>>

-----------------------------------------------------------------------------
(* Specifications of the bagging ensemble *)

NoObject == [n_base |-> 0]
IdleBoost ==
    [ pc |-> "idle", learner_index |-> 0, samples_n |-> 0,
      w |-> << >>, den |-> 1, w_in |-> << >>, den_in |-> 1,
      y_conf |-> << >>, target |-> 0,
      left_bound |-> 0, right_bound |-> 0, c_thr |-> 0, actual |-> 0,
      iters |-> 0, p_thr |-> 0 ]

BagArgs(nbs, mfs, percs, nds, ws) ==
    [ n_base : nbs, max_features : mfs, sampling_ratio : {None},
      perc_decisors : percs, n_decisors : nds, weighted : ws ]

InitBagging(A) ==
    /\ ctor = "bagging"
    /\ args \in A
    /\ bag = BaggingInit(args)
    /\ bst = NoObject
    /\ X \in [n_rows : 1..MaxRows, n_features : 1..MaxFeatures]
    /\ fit = IdleFit
    /\ task = << >>
    /\ f_list = << >>
    /\ c_list = << >>
    /\ lock = 0
    /\ pred = NoPred
    /\ boost = IdleBoost

Worker(t) ==
    \/ WorkerSample(t)
    \/ WorkerTrain(t)
    \/ WorkerRaise(t)
    \/ WorkerAcquire(t)
    \/ WorkerAppendF(t)
    \/ WorkerAppendC(t)
    \/ WorkerExit(t)

NextBag ==
    \/ FitBegin
    \/ FitStart
    \/ FitJoin
    \/ FitReadF
    \/ FitReadC
    \/ FitTail
    \/ \E t \in DOMAIN task : Worker(t)
    \/ PredictProba

\* fit on every shape of X and every accepted max_features
InitFeatures ==
    InitBagging(BagArgs(2..MaxBase, Opt({r \in 1..RatioDen : r % 3 = 1}),
                        {None}, {None}, {FALSE}))

SpecFeatures == InitFeatures /\ [][NextBag]_vars

\* prediction for every choice of the deciding members
InitBag ==
    /\ InitBagging(BagArgs(2..MaxBase, {Some(RatioDen)}, Opt({RatioDen \div 2}),
                           Opt(1..MaxBase), BOOLEAN))
    /\ X.n_features = 1

SpecBag == InitBag /\ [][NextBag]_vars

-----------------------------------------------------------------------------
(* define_conf_thr *)

\* halvings after which a bracket of width 1 is no wider than 0.001
MaxHalvings ==
    CHOOSE k \in 1..20 : 2 ^ k >= BracketInv /\ 2 ^ (k - 1) < BracketInv

\* the unit of the search: a confidence c stands for c / RatioDen, a bound
\* or threshold b for b / Scale
Scale == RatioDen * (2 ^ (MaxHalvings + 1))
ToScale(c) == c * (2 ^ (MaxHalvings + 1))

RECURSIVE SeqMin(_)
SeqMin(s) == IF Len(s) = 1 THEN s[1] ELSE Min(s[1], SeqMin(Tail(s)))
RECURSIVE SeqMax(_)
SeqMax(s) == IF Len(s) = 1 THEN s[1] ELSE Max(s[1], SeqMax(Tail(s)))

\* numpy.average(confs < c_thr), as the number of rows below c_thr
CountBelow(confs, thr) ==
    Cardinality({i \in 1..Len(confs) : ToScale(confs[i]) < thr})

Midpoint(a, b) == (a + b) \div 2

\* abs(actual_thr - target_thr) > delta
OffTarget(count, n, target) ==
    Abs(count * RatioDen - target * n) * DeltaInv > RatioDen * n

\* abs(right_bound - left_bound) > 0.001
BracketOpen(l, r) == Abs(r - l) * BracketInv > Scale

\* a loop that stops on the target alone
WhileGuardBug(b) == OffTarget(b.actual, Len(b.y_conf), b.target)
\* line 24
WhileGuard(b) ==
    /\ OffTarget(b.actual, Len(b.y_conf), b.target)
    /\ BracketOpen(b.left_bound, b.right_bound)

\* lines 17-23: the state of the search when the loop is first reached
SolverEntry(b, confs, target) ==
    LET l == ToScale(SeqMin(confs))
        r == ToScale(SeqMax(confs))
        c == Midpoint(r, l)
    IN  [b EXCEPT !.pc = "solve", !.y_conf = confs, !.target = target,
                   !.left_bound = l, !.right_bound = r, !.c_thr = c,
                   !.actual = CountBelow(confs, c), !.iters = 0]

\* lines 25-31: one pass of the loop
SolveStep ==
    /\ boost.pc = "solve"
    /\ WhileGuard(boost)
    /\ LET below == boost.actual * RatioDen < boost.target * Len(boost.y_conf)
           l == IF below THEN boost.c_thr ELSE boost.left_bound
           r == IF below THEN boost.right_bound ELSE boost.c_thr
           c == IF below THEN Midpoint(boost.c_thr, boost.right_bound)
                         ELSE Midpoint(boost.c_thr, boost.left_bound)
       IN  boost' = [boost EXCEPT !.left_bound = l, !.right_bound = r,
                                  !.c_thr = c,
                                  !.actual = CountBelow(boost.y_conf, c),
                                  !.iters = boost.iters + 1]
    /\ UNCHANGED <<ctor, args, bag, bst, X, fit, task, f_list, c_list, lock, pred>>

\* line 32, then fit_ensemble lines 89-90: the threshold is returned and the
\* learner appended
SolveReturn ==
    /\ boost.pc = "solve"
    /\ ~WhileGuard(boost)
    /\ boost' = [boost EXCEPT !.pc = "reweigh", !.p_thr = boost.c_thr]
    /\ bst' = [bst EXCEPT !.estimators_ = Append(bst.estimators_, boost.learner_index)]
    /\ UNCHANGED <<ctor, args, bag, X, fit, task, f_list, c_list, lock, pred>>

-----------------------------------------------------------------------------
(* ConfidenceBoosting.fit_ensemble *)

RECURSIVE SumSeq(_)
SumSeq(s) == IF s = << >> THEN 0 ELSE Head(s) + SumSeq(Tail(s))

RECURSIVE Gcd(_, _)
Gcd(a, b) == IF b = 0 THEN Abs(a) ELSE Gcd(b, a % Abs(b))

RECURSIVE GcdSeq(_)
GcdSeq(s) == IF s = << >> THEN 0 ELSE Gcd(Head(s), GcdSeq(Tail(s)))

\* the weights u[i] / d in lowest terms with a positive denominator; d = 0
\* stands for the nan and inf of a division by zero
Lowest(u, d) ==
    IF d = 0 THEN [w |-> u, den |-> 0]
    ELSE LET g == Gcd(GcdSeq(u), d)
             sgn == IF d < 0 THEN -1 ELSE 1
         IN  [w |-> [i \in 1..Len(u) |-> sgn * (u[i] \div g)],
              den |-> sgn * (d \div g)]

\* weights / sum(weights)
Normalize(u) == Lowest(u, SumSeq(u))

\* int(x / d), which truncates towards zero
IntDiv(x, d) == IF x >= 0 THEN x \div d ELSE -((-x) \div d)

\* int(train_n * self.sampling_ratio)
SamplesN(train_n, sr) ==
    IF sr.kind = "ratio" THEN IntDiv(train_n * sr.v, RatioDen)
    ELSE CHOOSE k \in 0..train_n :
            /\ k * k * sr.v <= train_n * train_n
            /\ (k + 1) * (k + 1) * sr.v > train_n * train_n

\* draw_samples(X, y, samples_n, weights): numpy.random.choice without
\* replacement raises ValueError when more rows are asked than there are, or
\* than have a non-zero probability, and when the probabilities are negative
\* or not numbers
DrawRaises(n_rows, samples_n, w, den) ==
    \/ samples_n > n_rows
    \/ samples_n < 0
    \/ den = 0
    \/ \E i \in 1..Len(w) : w[i] < 0
    \/ Cardinality({i \in 1..Len(w) : w[i] > 0}) < samples_n

\* the confidences a learner may give the rows of X
BoostConfs == {r \in 1..RatioDen : r >= RatioDen - 4 /\ r % 2 = 0}

\* lines 73-75
FitEnsembleBegin ==
    /\ ctor = "boosting"
    /\ boost.pc = "idle"
    /\ boost' = [boost EXCEPT
                   !.pc = "draw", !.learner_index = 0,
                   !.samples_n = SamplesN(X.n_rows, bst.sampling_ratio),
                   !.w = [i \in 1..X.n_rows |-> 1], !.den = X.n_rows,
                   !.w_in = [i \in 1..X.n_rows |-> 1], !.den_in = X.n_rows]
    /\ UNCHANGED <<ctor, args, bag, bst, X, fit, task, f_list, c_list, lock, pred>>

\* lines 76-89: a sample is drawn, a learner trained on it, and its
\* confidences on the whole of X handed to define_conf_thr
RoundTrain ==
    /\ boost.pc = "draw"
    /\ boost.learner_index < bst.n_base
    /\ IF DrawRaises(X.n_rows, boost.samples_n, boost.w, boost.den)
       THEN boost' = [boost EXCEPT !.pc = "ValueError"]
       ELSE \E confs \in [1..X.n_rows -> BoostConfs] :
               boost' = SolverEntry(boost, confs, bst.boost_thr)
    /\ UNCHANGED <<ctor, args, bag, bst, X, fit, task, f_list, c_list, lock, pred>>

\* line 76: the loop is over
FitEnsembleEnd ==
    /\ boost.pc = "draw"
    /\ boost.learner_index >= bst.n_base
    /\ boost' = [boost EXCEPT !.pc = "returned"]
    /\ UNCHANGED <<ctor, args, bag, bst, X, fit, task, f_list, c_list, lock, pred>>

\* numpy.where(y_conf >= p_thr, 0, 1)
UpdateFlag(conf, p_thr) == IF ToScale(conf) >= p_thr THEN 0 ELSE 1

\* an update with the flag inverted
MultiplierBug(lr, flag) == 1 + lr * (1 - flag)
\* 1 + self.learning_rate * update_flag
Multiplier(lr, flag) == 1 + lr * flag

\* lines 92-94
Reweigh ==
    /\ boost.pc = "reweigh"
    /\ LET u == [i \in 1..Len(boost.w) |->
                   boost.w[i] * Multiplier(bst.learning_rate,
                                           UpdateFlag(boost.y_conf[i], boost.p_thr))]
           \* the products are weights over boost.den; their sum is over it too
           nw == Normalize(u)
       IN  boost' = [boost EXCEPT !.pc = "draw",
                                  !.learner_index = boost.learner_index + 1,
                                  !.w_in = boost.w, !.den_in = boost.den,
                                  !.w = nw.w, !.den = nw.den]
    /\ UNCHANGED <<ctor, args, bag, bst, X, fit, task, f_list, c_list, lock, pred>>

-----------------------------------------------------------------------------
(* Specifications of the boosting ensemble *)

InitBoosting(A, rows) ==
    /\ ctor = "boosting"
    /\ args \in A
    /\ bst = BoostingInit(args)
    /\ bag = NoObject
    /\ X \in [n_rows : rows, n_features : {1}]
    /\ fit = IdleFit
    /\ task = << >>
    /\ f_list = << >>
    /\ c_list = << >>
    /\ lock = 0
    /\ pred = NoPred

InitBoost ==
    /\ InitBoosting([ n_base : 2..MaxRounds,
                      learning_rate : Opt({-MaxLearningRate, 1, MaxLearningRate}),
                      sampling_ratio : Opt({RatioDen, RatioDen + 5}),
                      boost_thr : Opt({RatioDen \div 2}) ],
                    2..(MaxRows + 1))
    /\ boost = IdleBoost

NextBoost ==
    \/ FitEnsembleBegin
    \/ RoundTrain
    \/ FitEnsembleEnd
    \/ SolveStep
    \/ SolveReturn
    \/ Reweigh

SpecBoost == InitBoost /\ [][NextBoost]_vars

\* define_conf_thr alone, as the first round of fit_ensemble calls it, on
\* every confidence vector and every target
InitSolver ==
    /\ InitBoosting([ n_base : {2}, learning_rate : {None},
                      sampling_ratio : {Some(RatioDen)},
                      boost_thr : Opt(0..RatioDen) ],
                    1..MaxSolverRows)
    /\ \E confs \in [1..X.n_rows -> (RatioDen \div 2)..RatioDen] :
          boost = SolverEntry([IdleBoost EXCEPT
                                  !.samples_n = X.n_rows,
                                  !.w = [i \in 1..X.n_rows |-> 1],
                                  !.den = X.n_rows,
                                  !.w_in = [i \in 1..X.n_rows |-> 1],
                                  !.den_in = X.n_rows],
                              confs, bst.boost_thr)

NextSolver == SolveStep \/ SolveReturn

SpecSolver == InitSolver /\ [][NextSolver]_vars

-----------------------------------------------------------------------------
(* The constructors, on every combination of arguments *)

NoArgs == [n_base |-> 0]

BaggingCtorArgs ==
    [ n_base : -1..MaxNBaseArg,
      max_features : Opt(-1..(RatioDen + 1)),
      sampling_ratio : Opt(-1..(RatioDen + 1)),
      perc_decisors : Opt(-1..(RatioDen + 1)),
      n_decisors : Opt(0..(DefaultNBase + 1)),
      weighted : {FALSE} ]

BoostingCtorArgs ==
    [ n_base : -1..MaxNBaseArg,
      learning_rate : Opt((-MaxLearningRate)..MaxLearningRate),
      sampling_ratio : Opt(-1..(RatioDen + 1)),
      boost_thr : Opt(0..RatioDen) ]

\* ConfidenceBagging(clf, ...)
NewBagging ==
    /\ ctor = "none"
    /\ \E a \in BaggingCtorArgs :
          /\ args' = a
          /\ bag' = BaggingInit(a)
    /\ ctor' = "bagging"
    /\ UNCHANGED <<bst, X, fit, task, f_list, c_list, lock, pred, boost>>

\* ConfidenceBoosting(clf, ...)
NewBoosting ==
    /\ ctor = "none"
    /\ \E a \in BoostingCtorArgs :
          /\ args' = a
          /\ IF BoostingInitRaises(a)
             THEN ctor' = "raised" /\ bst' = bst
             ELSE ctor' = "boosting" /\ bst' = BoostingInit(a)
    /\ UNCHANGED <<bag, X, fit, task, f_list, c_list, lock, pred, boost>>

InitCfg ==
    /\ ctor = "none"
    /\ args = NoArgs
    /\ bag = NoObject
    /\ bst = NoObject
    /\ X = [n_rows |-> 0, n_features |-> 0]
    /\ fit = IdleFit
    /\ task = << >>
    /\ f_list = << >>
    /\ c_list = << >>
    /\ lock = 0
    /\ pred = NoPred
    /\ boost = IdleBoost

NextCfg == NewBagging \/ NewBoosting

SpecCfg == InitCfg /\ [][NextCfg]_vars

-----------------------------------------------------------------------------
(* Claims about the bagging ensemble *)

NoTaskFailed == \A t \in DOMAIN task : task[t].pc # "failed"

\* C1: a worker failure is not isolated: it aborts the overall fit, so fit
\* never returns normally after a worker has failed, nor with fewer than
\* n_base trained members.
C1_WorkerFailureAbortsFit ==
    fit.pc = "returned" =>
        /\ NoTaskFailed
        /\ Len(bag.estimators_) = bag.n_base

\* C2: fit reads the shared lists only after every worker has ended and been
\* joined, whatever the interleaving; when no worker fails the fitted
\* ensemble holds exactly n_base feature subsets and the n_base trained
\* members, each once.
C2_FitIsBarrier ==
    /\ fit.pc \in {"read_f", "read_c", "tail", "returned", "IndexError"} =>
          \A t \in DOMAIN task : Ended(t)
    /\ (fit.pc \in {"tail", "returned", "IndexError"} /\ NoTaskFailed) =>
          /\ Len(bag.feature_sets) = bag.n_base
          /\ Len(bag.estimators_) = bag.n_base
          /\ Range(bag.estimators_) = 1..bag.n_base

\* a fit that returned with every member trained, the last started worker
\* having appended first
C2_Witness ==
    /\ fit.pc = "returned"
    /\ NoTaskFailed
    /\ Len(bag.estimators_) = MaxBase
    /\ bag.estimators_[1] = MaxBase

\* C3: predict_proba on an ensemble no fit has trained fails with
\* NotFittedError, before any member is asked for a prediction.
C3_NotFittedError ==
    (fit.pc = "idle" /\ bag.estimators_ = << >> /\ pred.status # "none") =>
        /\ pred.status = "NotFittedError"
        /\ pred.asked = 0

StrictlyAscending(s) == \A i \in 1..(Len(s) - 1) : s[i] < s[i + 1]

\* C4: every feature subset fit_base produces has size
\* max(1, floor(n_features * max_features)), at most n_features, and its
\* indices are strictly ascending.
C4_FeatureSubsets ==
    \A i \in 1..Len(f_list) :
        /\ Len(f_list[i]) = Max(1, (X.n_features * bag.max_features) \div RatioDen)
        /\ Len(f_list[i]) <= X.n_features
        /\ StrictlyAscending(f_list[i])

AllDistinct(conf) == \A i, j \in 1..Len(conf) : i # j => conf[i] # conf[j]

\* the members with strictly greater confidence than member m
Above(conf, m) == {o \in 1..Len(conf) : conf[o] > conf[m]}

\* C9: in top-k mode the members that contribute to a row are those with
\* fewer than n_decisors members strictly more confident: exactly the
\* n_decisors most confident when the confidences are all distinct, never
\* fewer than n_decisors when some tie.
C9_TopKDecisors ==
    (pred.status = "returned" /\ ~bag.weighted) =>
        /\ pred.decisors =
              {m \in 1..bag.n_base :
                  Cardinality(Above(pred.conf, m)) < bag.n_decisors}
        /\ Cardinality(pred.decisors) >= bag.n_decisors
        /\ AllDistinct(pred.conf) =>
              Cardinality(pred.decisors) = bag.n_decisors

C9_Witness ==
    /\ pred.status = "returned"
    /\ ~bag.weighted
    /\ AllDistinct(pred.conf)
    /\ 1 < bag.n_decisors
    /\ bag.n_decisors < bag.n_base
    /\ Cardinality(pred.decisors) = bag.n_decisors

-----------------------------------------------------------------------------
(* Claims about the constructors *)

ValidPerc == args.perc_decisors # None /\ InUnitInterval(args.perc_decisors[1])
ValidCount ==
    /\ args.n_decisors # None
    /\ 0 < args.n_decisors[1]
    /\ args.n_decisors[1] <= bag.n_base

\* C7: construction never aborts; the stored sampling ratio of either
\* ensemble lies in (0,1]; bagging's max_features lies in (0,1] and its
\* member count is at least 2.
C7_ConfigDefaults ==
    /\ ctor # "raised"
    /\ ctor = "bagging" =>
          /\ InUnitInterval(bag.sampling_ratio)
          /\ InUnitInterval(bag.max_features)
          /\ bag.n_base >= 2
    /\ ctor = "boosting" =>
          \/ /\ bst.sampling_ratio.kind = "ratio"
             /\ InUnitInterval(bst.sampling_ratio.v)
          \/ /\ bst.sampling_ratio.kind = "invsqrt"
             /\ bst.sampling_ratio.v >= 1

\* C10: the stored decisor count lies in 1..n_base; a valid perc_decisors
\* decides it (max(1, floor(n_base * perc_decisors))) whatever n_decisors
\* is; else a valid n_decisors is kept; else it is 1 + floor(n_base / 2).
C10_DecisorCount ==
    ctor = "bagging" =>
        /\ 1 <= bag.n_decisors
        /\ bag.n_decisors <= bag.n_base
        /\ bag.n_base = (IF args.n_base > 1 THEN args.n_base ELSE 10)
        /\ ValidPerc =>
              bag.n_decisors =
                 Max(1, (bag.n_base * args.perc_decisors[1]) \div RatioDen)
        /\ (~ValidPerc /\ ValidCount) => bag.n_decisors = args.n_decisors[1]
        /\ (~ValidPerc /\ ~ValidCount) =>
              bag.n_decisors = 1 + (bag.n_base \div 2)

\* both given and valid, and the percentage decides
C10_Witness ==
    /\ ctor = "bagging"
    /\ ValidPerc
    /\ ValidCount
    /\ bag.n_decisors # args.n_decisors[1]

-----------------------------------------------------------------------------
(* Claims about the boosting ensemble *)

Rows == 1..Len(boost.w)

\* a round has just ended: the weights are updated, y_conf and p_thr are
\* still those of the round
RoundEnded == boost.pc = "draw" /\ boost.learner_index >= 1

BelowThr(i) == ToScale(boost.y_conf[i]) < boost.p_thr

\* C5: with a positive learning rate, in every round every row whose
\* confidence is below the round's threshold ends the round with a strictly
\* greater weight than every row at or above it.
C5_BelowOutweighsAbove ==
    (RoundEnded /\ bst.learning_rate > 0) =>
        \A i, j \in Rows :
            (BelowThr(i) /\ ~BelowThr(j)) =>
                boost.w[i] * boost.den > boost.w[j] * boost.den

\* C5, amended: ... than every row at or above it whose weight at the start
\* of the round was not greater than its own.
C5_BelowOutweighsAboveNotHeavier ==
    (RoundEnded /\ bst.learning_rate > 0) =>
        /\ boost.den > 0
        /\ boost.den_in > 0
        /\ \A i, j \in Rows :
              (BelowThr(i) /\ ~BelowThr(j) /\ boost.w_in[i] >= boost.w_in[j]) =>
                  boost.w[i] > boost.w[j]

\* a second round, entered with unequal weights, that raised a row below
\* the threshold above a lighter row at or above it
C5_Witness ==
    /\ RoundEnded
    /\ boost.learner_index = 2
    /\ bst.learning_rate > 0
    /\ \E i, j \in Rows :
          /\ BelowThr(i)
          /\ ~BelowThr(j)
          /\ boost.w_in[i] > boost.w_in[j]
          /\ boost.w[i] > boost.w[j]

\* C6: the weights start uniform and, after every round, every weight is
\* non-negative and the weights sum to 1.
C6_WeightsAreDistribution ==
    /\ (boost.pc = "draw" /\ boost.learner_index = 0) =>
          \A i \in Rows : boost.w[i] * X.n_rows = boost.den
    /\ boost.pc # "idle" =>
          /\ boost.den > 0
          /\ \A i \in Rows : boost.w[i] >= 0
          /\ SumSeq(boost.w) = boost.den

\* C8: define_conf_thr ends, within MaxHalvings passes of its loop, and
\* returns a threshold between the least and the greatest confidence such
\* that the fraction of confidences below it is within 0.01 of the target,
\* or the bracket is no wider than 0.001.
C8_SolverResult ==
    /\ boost.iters <= MaxHalvings
    /\ boost.pc = "reweigh" =>
          /\ boost.p_thr >= ToScale(SeqMin(boost.y_conf))
          /\ boost.p_thr <= ToScale(SeqMax(boost.y_conf))
          /\ \/ Abs(Cardinality({i \in Rows : BelowThr(i)}) * RatioDen
                      - bst.boost_thr * Len(boost.y_conf)) * DeltaInv
                   <= RatioDen * Len(boost.y_conf)
             \/ (boost.right_bound - boost.left_bound) * BracketInv <= Scale

\* a search over two or more distinct confidences that missed its target
\* and ended on the width of the bracket
C8_Witness ==
    /\ boost.pc = "reweigh"
    /\ SeqMin(boost.y_conf) < SeqMax(boost.y_conf)
    /\ boost.iters >= 2
    /\ OffTarget(boost.actual, Len(boost.y_conf), boost.target)

=============================================================================
